---- MODULE Spec2Model ----
(***************************************************************************)
(* Model of tools/generate_jsonl.py (main and JSONLGenerator) and of        *)
(* tools/extract_jsonl_responses.py.  JSONLGenerator builds one batch       *)
(* request per input file (generate_jsonl) and writes the requests to one  *)
(* or more JSONL files, splitting on the request-count and file-size       *)
(* limits and skipping requests above the line-size limit                  *)
(* (save_jsonl_file, _write_jsonl_file).                                   *)
(*                                                                         *)
(* Abstractions.  A path is a number of 1..MaxFiles and the lexicographic  *)
(* order of paths is the order of the numbers.  The text of a file is      *)
(* represented by the number of bytes that the compact JSON encoding of    *)
(* the request built from it occupies (json_bytes), and read as the pair   *)
(* <<"text", json_bytes>>, the other strings of a request being fixed for  *)
(* a run; None is the tuple <<"None">>; a temperature is a number of        *)
(* tenths; a custom_id is                                                   *)
(* the sequence of its decimal digits; a file name is the tuple of the     *)
(* parts the f-string concatenates.                                        *)
(***************************************************************************)
EXTENDS Integers, Sequences, FiniteSets, TLC

\* ---------------------------------------------------------------- bounds
MaxFiles == 3
MaxJsonLen == 2
MaxRequestsLimit == 3
MaxLineLimit == 2
MaxFileLimit == 5

\* ------------------------------------------------------- program constants
ID_WIDTH == 5

base_filename == "batch"

None == <<"None">>

Paths == 1..MaxFiles

\* What the directory holds under a path: nothing with a matching extension,
\* a file whose read raises, or a readable text.
FileStates ==
    {[kind |-> "absent", json_bytes |-> 0], [kind |-> "unreadable", json_bytes |-> 0]}
        \cup {[kind |-> "text", json_bytes |-> n] : n \in 1..MaxJsonLen}

VARIABLES
    directory,              \* input: path -> FileStates
    MAX_REQUESTS_PER_FILE,  \* the three limits of the class
    MAX_FILE_SIZE_BYTES,
    MAX_LINE_SIZE_BYTES,
    pc,                     \* where the code is: "start", "load", "save", "done" and more
    input_files,            \* generate_jsonl: sorted list of paths
    i,                      \* generate_jsonl: 1-based position in input_files
    requests,               \* generate_jsonl: the requests built so far
    skipped_count,          \* generate_jsonl: unreadable files
    idx,                    \* save_jsonl_file: 1-based position in requests
    current_requests,       \* save_jsonl_file: the batch in progress
    current_size_bytes,
    file_index,
    output_files,           \* save_jsonl_file: the paths returned by the writes
    written,                \* history of the calls of _write_jsonl_file
    rejected,               \* history of the requests skipped as too large
    result,                 \* return value of generate_jsonl
    generator,              \* self.model, self.temperature, self.system_prompt
    argv,                   \* main: the parsed command line
    output_dir_created,     \* main: os.makedirs(output_dir) of __init__ has run
    exit_code,              \* main: the value returned, -1 while it runs
    position,               \* a file position given to the custom_id format
    custom_id_text,         \* the custom_id formatted for it
    file_texts,             \* the characters stored in the files of a small run
    records,                \* the request objects built from them
    lines,                  \* extractor: the lines of the JSONL file read
    line_no,                \* extractor: the line the loop is at
    total,                  \* extractor: records, saved, skipped, usage
    out_files,              \* extractor: the output directory, name -> JSON value
    record,                 \* a record given to extract_content_from_record
    extracted,              \* what it returned: content_obj, raw_content
    source_dir,             \* rename: the names of the SRT files
    target_dir,             \* rename: JSON file name -> what the file holds
    srt_files,              \* rename: sorted list of the SRT names
    json_files,             \* rename: sorted list of the JSON names
    rename_i,               \* rename: the position the loop is at
    renamed_count,          \* rename: files renamed so far
    rename_log,             \* rename: what was printed for each position
    disk,                   \* app: the files of the directory, name -> text
    selected_file_types,    \* app: the extensions to scan for
    selected_output_format, \* app: the extension of the results, without dot
    app_matched_files,      \* app: matched_files, the list of the scan
    file_i,                 \* app: the position the batch loop is at
    processed_files,        \* app: (source file, result file, status) rows
    app_skipped_count,      \* app: skipped_count of the batch loop
    api_calls               \* app: the files process_file was called for

main_vars == <<argv, output_dir_created, exit_code>>
id_vars == <<position, custom_id_text>>
rec_vars == <<file_texts, records>>
ext_vars == <<lines, line_no, total, out_files, record, extracted>>
ren_vars == <<source_dir, target_dir, srt_files, json_files, rename_i, renamed_count,
             rename_log>>
app_vars == <<disk, selected_file_types, selected_output_format, app_matched_files,
             file_i,
             processed_files, app_skipped_count, api_calls>>

\* what generate_jsonl and save_jsonl_file leave alone
outer_vars == <<generator, main_vars, id_vars, rec_vars, ext_vars, ren_vars, app_vars>>

vars == <<outer_vars, directory, MAX_REQUESTS_PER_FILE, MAX_FILE_SIZE_BYTES, MAX_LINE_SIZE_BYTES,
          pc, input_files, i, requests, skipped_count, idx, current_requests,
          current_size_bytes, file_index, output_files, written, rejected, result>>

limits == <<MAX_REQUESTS_PER_FILE, MAX_FILE_SIZE_BYTES, MAX_LINE_SIZE_BYTES>>
build_vars == <<input_files, i, requests, skipped_count>>
save_vars == <<idx, current_requests, current_size_bytes, file_index, output_files,
               written, rejected>>

\* ---------------------------------------------------------------- helpers
RECURSIVE Digits(_)
Digits(n) == IF n < 10 THEN <<n>> ELSE Digits(n \div 10) \o <<n % 10>>

RECURSIVE ZeroPad(_, _)
ZeroPad(ds, width) == IF Len(ds) >= width THEN ds ELSE ZeroPad(<<0>> \o ds, width)

\* f"{i:05d}"
FormatCustomIdByCount(n) == ZeroPad(Digits(Len(requests) + 1), ID_WIDTH)
FormatCustomIdFixedWidth(n) ==
    LET ds == ZeroPad(Digits(n), ID_WIDTH)
    IN SubSeq(ds, Len(ds) - ID_WIDTH + 1, Len(ds))
FormatCustomId(n) == ZeroPad(Digits(n), ID_WIDTH)

\* sorted(matched_files), by selection of the least remaining path
RECURSIVE SortedSeq(_)
SortedSeq(S) ==
    IF S = {} THEN <<>>
    ELSE LET m == CHOOSE x \in S : \A y \in S : x <= y
         IN <<m>> \o SortedSeq(S \ {m})

\* os.walk: the matching files of the directory, in an order the platform
\* decides (any arrangement of them)
MatchedFiles(dir) == {p \in DOMAIN dir : dir[p].kind # "absent"}
WalkOrders(dir) ==
    {w \in [1..Cardinality(MatchedFiles(dir)) -> MatchedFiles(dir)] :
        \A a, b \in DOMAIN w : a # b => w[a] # w[b]}

\* find_input_files returns sorted(matched_files)
find_input_files_unsorted(matched_files) == matched_files
find_input_files(matched_files) ==
    SortedSeq({matched_files[k] : k \in DOMAIN matched_files})

\* the text, or None when open/read raises
read_file_content(file_path) ==
    IF directory[file_path].kind = "text"
    THEN <<"text", directory[file_path].json_bytes>>
    ELSE None

\* (variant: the user message is put before the system message)
create_request_object_user_first(custom_id, file_content) ==
    [custom_id |-> custom_id,
     method |-> "POST",
     url |-> "/v1/chat/completions",
     body |-> [model |-> generator.model,
               temperature |-> generator.temperature,
               messages |-> <<[role |-> "user", content |-> file_content],
                              [role |-> "system", content |-> generator.system_prompt]>>]]
create_request_object(custom_id, file_content) ==
    [custom_id |-> custom_id,
     method |-> "POST",
     url |-> "/v1/chat/completions",
     body |-> [model |-> generator.model,
               temperature |-> generator.temperature,
               messages |-> <<[role |-> "system", content |-> generator.system_prompt],
                              [role |-> "user", content |-> file_content]>>]]

\* len(json.dumps(request, ...).encode('utf-8'))
JsonBytes(request) == request.body.messages[2].content[2]

\* request_size = len(request_json.encode('utf-8')) + 1
request_size(request) == JsonBytes(request) + 1

\* validate_request_size: the check is on the encoding without the newline
validate_request_size_with_newline(request) ==
    ~(JsonBytes(request) + 1 > MAX_LINE_SIZE_BYTES)
validate_request_size(request) == ~(JsonBytes(request) > MAX_LINE_SIZE_BYTES)

\* the condition of the split, lines 125-126
NeedsSplitAtSizeLimit(cur, cur_size, request) ==
    /\ (Len(cur) >= MAX_REQUESTS_PER_FILE
        \/ cur_size + request_size(request) >= MAX_FILE_SIZE_BYTES)
    /\ cur # <<>>
NeedsSplitCountOffByOne(cur, cur_size, request) ==
    /\ (Len(cur) > MAX_REQUESTS_PER_FILE
        \/ cur_size + request_size(request) > MAX_FILE_SIZE_BYTES)
    /\ cur # <<>>
NeedsSplitSizeIgnored(cur, cur_size, request) ==
    /\ Len(cur) >= MAX_REQUESTS_PER_FILE
    /\ cur # <<>>
NeedsSplit(cur, cur_size, request) ==
    /\ (Len(cur) >= MAX_REQUESTS_PER_FILE
        \/ cur_size + request_size(request) > MAX_FILE_SIZE_BYTES)
    /\ cur # <<>>

\* the name _write_jsonl_file gives to the file of an index
OutputFilenameAlwaysSuffixed(base, index) == <<base, "_part", index, ".jsonl">>
OutputFilename(base, index) ==
    IF index > 1 THEN <<base, "_part", index, ".jsonl">> ELSE <<base, ".jsonl">>

\* one call of _write_jsonl_file: the path on success, None when the write raises
WriteResult(reqs, index, ok) == IF ok THEN OutputFilename(base_filename, index) ELSE None
WriteRecord(reqs, index, ok) ==
    [index |-> index, name |-> OutputFilename(base_filename, index),
     requests |-> reqs, ok |-> ok]

\* save_jsonl_file as a function of the list it is given: the calls of
\* _write_jsonl_file it makes, in order (k is the position of the loop)
RECURSIVE SaveLoop(_, _, _, _, _)
SaveLoop(reqs, k, cur, cur_size, index) ==
    IF k > Len(reqs)
    THEN IF cur # <<>>
         THEN <<[index |-> index, name |-> OutputFilename(base_filename, index),
                 requests |-> cur]>>
         ELSE <<>>
    ELSE IF ~validate_request_size(reqs[k])
         THEN SaveLoop(reqs, k + 1, cur, cur_size, index)
         ELSE IF NeedsSplit(cur, cur_size, reqs[k])
              THEN <<[index |-> index, name |-> OutputFilename(base_filename, index),
                      requests |-> cur]>>
                       \o SaveLoop(reqs, k + 1, <<reqs[k]>>, request_size(reqs[k]),
                                   index + 1)
              ELSE SaveLoop(reqs, k + 1, Append(cur, reqs[k]),
                            cur_size + request_size(reqs[k]), index)

save_jsonl_file(reqs) == SaveLoop(reqs, 1, <<>>, 0, 1)

\* the command line of the example of the help text:
\* python generate_jsonl.py qwen-plus 1.3 "You are helpful" ./input -e txt
ExampleArgv ==
    [input_dir_exists |-> TRUE, model |-> "qwen-plus", temperature |-> 13,
     system_prompt |-> "You are helpful"]

\* JSONLGenerator.__init__ keeps the arguments
NewGenerator(a) ==
    [model |-> a.model, temperature |-> a.temperature, system_prompt |-> a.system_prompt]

\* no position is being formatted
IdIdle == position = 0 /\ custom_id_text = <<>>

\* no record is being built on its own
RecordIdle == file_texts = <<>> /\ records = <<>>

\* JSON values, and None of Python, which is what json.loads gives for null
JStr(s) == [t |-> "str", v |-> s]
JNum(n) == [t |-> "num", v |-> n]
JDict(f) == [t |-> "dict", v |-> f]
JList(q) == [t |-> "list", v |-> q]
JNull == [t |-> "null", v |-> ""]

\* extract_content_from_record has not been called
NotExtracted == [content_obj |-> JNull, raw_content |-> JNull, returned |-> FALSE]

\* total = {'records': 0, 'saved': 0, 'skipped': 0, 'usage': {}}
NewTotal == [records |-> 0, saved |-> 0, skipped |-> 0, usage |-> <<>>]

\* the batch loop of app.py is not running
AppIdle ==
    /\ disk = <<>>
    /\ selected_file_types = {}
    /\ selected_output_format = ""
    /\ app_matched_files = <<>>
    /\ file_i = 1
    /\ processed_files = <<>>
    /\ app_skipped_count = 0
    /\ api_calls = <<>>

\* rename_json_by_srt is not running
RenameIdle ==
    /\ source_dir = {}
    /\ target_dir = <<>>
    /\ srt_files = <<>>
    /\ json_files = <<>>
    /\ rename_i = 1
    /\ renamed_count = 0
    /\ rename_log = <<>>

\* the extractor is not running
ExtractorIdle ==
    /\ lines = <<>>
    /\ line_no = 1
    /\ total = NewTotal
    /\ out_files = <<>>
    /\ record = JNull
    /\ extracted = NotExtracted

\* the locals of generate_jsonl and save_jsonl_file before the call
GeneratorIdle ==
    /\ input_files = <<>>
    /\ i = 1
    /\ requests = <<>>
    /\ skipped_count = 0
    /\ idx = 1
    /\ current_requests = <<>>
    /\ current_size_bytes = 0
    /\ file_index = 1
    /\ output_files = <<>>
    /\ written = <<>>
    /\ rejected = <<>>
    /\ result = None

\* ------------------------------------------------------------------- Init
\* a generator constructed from the example command line, about to run
\* generate_jsonl on some directory under some limits
Init ==
    /\ directory \in [Paths -> FileStates]
    /\ MAX_REQUESTS_PER_FILE \in 1..MaxRequestsLimit
    /\ MAX_FILE_SIZE_BYTES \in 2..MaxFileLimit
    /\ MAX_LINE_SIZE_BYTES \in 1..MaxLineLimit
    /\ argv = ExampleArgv
    /\ generator = NewGenerator(ExampleArgv)
    /\ output_dir_created = TRUE
    /\ exit_code = -1
    /\ IdIdle
    /\ RecordIdle
    /\ ExtractorIdle
    /\ RenameIdle
    /\ AppIdle
    /\ pc = "start"
    /\ input_files = <<>>
    /\ i = 1
    /\ requests = <<>>
    /\ skipped_count = 0
    /\ idx = 1
    /\ current_requests = <<>>
    /\ current_size_bytes = 0
    /\ file_index = 1
    /\ output_files = <<>>
    /\ written = <<>>
    /\ rejected = <<>>
    /\ result = None

\* ------------------------------------------------------- generate_jsonl
\* lines 187-191: scan; an empty scan returns []
ScanInputFiles ==
    /\ pc = "start"
    /\ \E matched_files \in WalkOrders(directory) :
          input_files' = find_input_files(matched_files)
    /\ IF input_files' = <<>>
       THEN pc' = "done" /\ result' = <<>>
       ELSE pc' = "load" /\ result' = result
    /\ UNCHANGED <<outer_vars, directory, limits, i, requests, skipped_count, save_vars>>

\* (variant: a failed read ends the run)
SkipUnreadableFileAborts ==
    /\ pc = "load"
    /\ i <= Len(input_files)
    /\ read_file_content(input_files[i]) = None
    /\ skipped_count' = skipped_count + 1
    /\ i' = i + 1
    /\ pc' = "done"
    /\ result' = <<>>
    /\ UNCHANGED <<outer_vars, directory, limits, input_files, requests, save_vars>>

\* lines 200-214, one iteration on a file whose read fails
SkipUnreadableFile ==
    /\ pc = "load"
    /\ i <= Len(input_files)
    /\ read_file_content(input_files[i]) = None
    /\ skipped_count' = skipped_count + 1
    /\ i' = i + 1
    /\ UNCHANGED <<outer_vars, directory, limits, pc, input_files, requests, save_vars, result>>

\* lines 200-214, one iteration on a readable file
LoadFile ==
    /\ pc = "load"
    /\ i <= Len(input_files)
    /\ read_file_content(input_files[i]) # None
    /\ requests' = Append(requests,
            create_request_object(FormatCustomId(i), read_file_content(input_files[i])))
    /\ i' = i + 1
    /\ UNCHANGED <<outer_vars, directory, limits, pc, input_files, skipped_count, save_vars, result>>

\* lines 216-218: nothing could be loaded
NothingLoaded ==
    /\ pc = "load"
    /\ i > Len(input_files)
    /\ requests = <<>>
    /\ pc' = "done"
    /\ result' = <<>>
    /\ UNCHANGED <<outer_vars, directory, limits, build_vars, save_vars>>

\* line 225 and lines 110-113: enter save_jsonl_file
EnterSave ==
    /\ pc = "load"
    /\ i > Len(input_files)
    /\ requests # <<>>
    /\ pc' = "save"
    /\ idx' = 1
    /\ current_requests' = <<>>
    /\ current_size_bytes' = 0
    /\ file_index' = 1
    /\ output_files' = <<>>
    /\ UNCHANGED <<outer_vars, directory, limits, build_vars, written, rejected, result>>

\* ------------------------------------------------------ save_jsonl_file
\* (variant: the size is accumulated before the request is validated)
RejectRequestCountsSize ==
    /\ pc = "save"
    /\ idx <= Len(requests)
    /\ ~validate_request_size(requests[idx])
    /\ rejected' = Append(rejected, requests[idx])
    /\ current_size_bytes' = current_size_bytes + request_size(requests[idx])
    /\ idx' = idx + 1
    /\ UNCHANGED <<outer_vars, directory, limits, pc, build_vars, current_requests,
                   file_index, output_files, written, result>>

\* lines 115-122: the request is too large, continue
RejectRequest ==
    /\ pc = "save"
    /\ idx <= Len(requests)
    /\ ~validate_request_size(requests[idx])
    /\ rejected' = Append(rejected, requests[idx])
    /\ idx' = idx + 1
    /\ UNCHANGED <<outer_vars, directory, limits, pc, build_vars, current_requests,
                   current_size_bytes, file_index, output_files, written, result>>

\* (variant: a batch whose write failed is kept and written again with the
\* next requests)
SplitAndAppendRetriesFailedWrite ==
    /\ pc = "save"
    /\ idx <= Len(requests)
    /\ validate_request_size(requests[idx])
    /\ NeedsSplit(current_requests, current_size_bytes, requests[idx])
    /\ \E ok \in BOOLEAN :
        /\ output_files' = Append(output_files,
                                  WriteResult(current_requests, file_index, ok))
        /\ written' = Append(written, WriteRecord(current_requests, file_index, ok))
        /\ IF ok
           THEN /\ file_index' = file_index + 1
                /\ current_requests' = <<requests[idx]>>
                /\ current_size_bytes' = request_size(requests[idx])
           ELSE /\ file_index' = file_index
                /\ current_requests' = Append(current_requests, requests[idx])
                /\ current_size_bytes' = current_size_bytes + request_size(requests[idx])
    /\ idx' = idx + 1
    /\ UNCHANGED <<outer_vars, directory, limits, pc, build_vars, rejected, result>>

\* (variant: the batch in progress is not reset after it is written)
SplitAndAppendKeepsBatch ==
    /\ pc = "save"
    /\ idx <= Len(requests)
    /\ validate_request_size(requests[idx])
    /\ NeedsSplit(current_requests, current_size_bytes, requests[idx])
    /\ \E ok \in BOOLEAN :
        /\ output_files' = Append(output_files,
                                  WriteResult(current_requests, file_index, ok))
        /\ written' = Append(written, WriteRecord(current_requests, file_index, ok))
    /\ file_index' = file_index + 1
    /\ current_requests' = Append(current_requests, requests[idx])
    /\ current_size_bytes' = request_size(requests[idx])
    /\ idx' = idx + 1
    /\ UNCHANGED <<outer_vars, directory, limits, pc, build_vars, rejected, result>>

\* (variant: the size is not reset when the batch in progress is written)
SplitAndAppendKeepsSize ==
    /\ pc = "save"
    /\ idx <= Len(requests)
    /\ validate_request_size(requests[idx])
    /\ NeedsSplit(current_requests, current_size_bytes, requests[idx])
    /\ \E ok \in BOOLEAN :
        /\ output_files' = Append(output_files,
                                  WriteResult(current_requests, file_index, ok))
        /\ written' = Append(written, WriteRecord(current_requests, file_index, ok))
    /\ file_index' = file_index + 1
    /\ current_requests' = <<requests[idx]>>
    /\ current_size_bytes' = current_size_bytes + request_size(requests[idx])
    /\ idx' = idx + 1
    /\ UNCHANGED <<outer_vars, directory, limits, pc, build_vars, rejected, result>>

\* lines 124-135: the batch in progress is written, the request opens the next
SplitAndAppend ==
    /\ pc = "save"
    /\ idx <= Len(requests)
    /\ validate_request_size(requests[idx])
    /\ NeedsSplit(current_requests, current_size_bytes, requests[idx])
    /\ \E ok \in BOOLEAN :
        /\ output_files' = Append(output_files,
                                  WriteResult(current_requests, file_index, ok))
        /\ written' = Append(written, WriteRecord(current_requests, file_index, ok))
    /\ file_index' = file_index + 1
    /\ current_requests' = <<requests[idx]>>
    /\ current_size_bytes' = request_size(requests[idx])
    /\ idx' = idx + 1
    /\ UNCHANGED <<outer_vars, directory, limits, pc, build_vars, rejected, result>>

\* (variant: the file is rewritten each time a request joins the batch)
AppendRequestWritesEagerly ==
    /\ pc = "save"
    /\ idx <= Len(requests)
    /\ validate_request_size(requests[idx])
    /\ ~NeedsSplit(current_requests, current_size_bytes, requests[idx])
    /\ current_requests' = Append(current_requests, requests[idx])
    /\ current_size_bytes' = current_size_bytes + request_size(requests[idx])
    /\ idx' = idx + 1
    /\ \E ok \in BOOLEAN :
        /\ output_files' = Append(output_files,
                                  WriteResult(current_requests', file_index, ok))
        /\ written' = Append(written, WriteRecord(current_requests', file_index, ok))
    /\ UNCHANGED <<outer_vars, directory, limits, pc, build_vars, file_index,
                   rejected, result>>

\* lines 124-135: the request joins the batch in progress
AppendRequest ==
    /\ pc = "save"
    /\ idx <= Len(requests)
    /\ validate_request_size(requests[idx])
    /\ ~NeedsSplit(current_requests, current_size_bytes, requests[idx])
    /\ current_requests' = Append(current_requests, requests[idx])
    /\ current_size_bytes' = current_size_bytes + request_size(requests[idx])
    /\ idx' = idx + 1
    /\ UNCHANGED <<outer_vars, directory, limits, pc, build_vars, file_index, output_files,
                   written, rejected, result>>

\* (variant: the batch left after the loop is not written)
FlushLastOmitted ==
    /\ pc = "save"
    /\ idx > Len(requests)
    /\ current_requests # <<>>
    /\ result' = output_files
    /\ pc' = "done"
    /\ UNCHANGED <<outer_vars, directory, limits, build_vars, save_vars>>

\* lines 137-142 and 225-233: the last batch is written, the list is returned
FlushLast ==
    /\ pc = "save"
    /\ idx > Len(requests)
    /\ current_requests # <<>>
    /\ \E ok \in BOOLEAN :
        /\ output_files' = Append(output_files,
                                  WriteResult(current_requests, file_index, ok))
        /\ written' = Append(written, WriteRecord(current_requests, file_index, ok))
    /\ result' = output_files'
    /\ pc' = "done"
    /\ UNCHANGED <<outer_vars, directory, limits, build_vars, idx, current_requests,
                   current_size_bytes, file_index, rejected>>

\* (variant: the batch left after the loop is written although it is empty)
ReturnNoBatchWritesEmpty ==
    /\ pc = "save"
    /\ idx > Len(requests)
    /\ current_requests = <<>>
    /\ \E ok \in BOOLEAN :
        /\ output_files' = Append(output_files,
                                  WriteResult(current_requests, file_index, ok))
        /\ written' = Append(written, WriteRecord(current_requests, file_index, ok))
    /\ result' = output_files'
    /\ pc' = "done"
    /\ UNCHANGED <<outer_vars, directory, limits, build_vars, idx, current_requests,
                   current_size_bytes, file_index, rejected>>

\* lines 137-142 and 225-233: every request was rejected, nothing to write
ReturnNoBatch ==
    /\ pc = "save"
    /\ idx > Len(requests)
    /\ current_requests = <<>>
    /\ result' = output_files
    /\ pc' = "done"
    /\ UNCHANGED <<outer_vars, directory, limits, build_vars, save_vars>>

Next ==
    \/ ScanInputFiles
    \/ SkipUnreadableFile
    \/ LoadFile
    \/ NothingLoaded
    \/ EnterSave
    \/ RejectRequest
    \/ SplitAndAppend
    \/ AppendRequest
    \/ FlushLast
    \/ ReturnNoBatch

Spec == Init /\ [][Next]_vars

\* ======================================================================
\* Properties
\* ======================================================================
RECURSIVE Flatten(_)
Flatten(bs) == IF bs = <<>> THEN <<>> ELSE Head(bs) \o Flatten(Tail(bs))

RECURSIVE TotalSize(_)
TotalSize(reqs) ==
    IF reqs = <<>> THEN 0 ELSE (JsonBytes(Head(reqs)) + 1) + TotalSize(Tail(reqs))

Count(seq, r) == Cardinality({k \in DOMAIN seq : seq[k] = r})

WrittenBatches == [k \in 1..Len(written) |-> written[k].requests]

\* the batches that exist at this point: the written ones and the one in progress
Batches ==
    IF pc = "save" /\ current_requests # <<>>
    THEN Append(WrittenBatches, current_requests)
    ELSE WrittenBatches

InSave == pc = "save" \/ (pc = "done" /\ requests # <<>>)
SaveReturned == pc = "done" /\ requests # <<>>

\* the requests the loop of save_jsonl_file has been through
Processed == IF pc = "done" THEN requests ELSE SubSeq(requests, 1, idx - 1)

Oversized(r) == JsonBytes(r) > MAX_LINE_SIZE_BYTES

WithinBounds(reqs) ==
    /\ Len(reqs) <= MAX_REQUESTS_PER_FILE
    /\ TotalSize(reqs) <= MAX_FILE_SIZE_BYTES

\* ---------------------------------------------------------------------- C1
\* C1 as stated: for every setting of the three limits, at every point the
\* batch in progress holds at most MAX_REQUESTS_PER_FILE requests and
\* current_size_bytes <= MAX_FILE_SIZE_BYTES, and so does every written file.
C1_EverySetting ==
    /\ Len(current_requests) <= MAX_REQUESTS_PER_FILE
    /\ current_size_bytes <= MAX_FILE_SIZE_BYTES
    /\ \A k \in DOMAIN written : WithinBounds(written[k].requests)

\* C1 amended: the two bounds hold at every point whenever
\* MAX_REQUESTS_PER_FILE >= 1 and MAX_LINE_SIZE_BYTES < MAX_FILE_SIZE_BYTES
\* (so that an accepted request alone, newline included, fits in a file).
C1_BatchWithinLimits ==
    (MAX_REQUESTS_PER_FILE >= 1 /\ MAX_LINE_SIZE_BYTES < MAX_FILE_SIZE_BYTES)
        => C1_EverySetting

\* a run under such limits that split twice, one file filled to the byte
C1_Witness ==
    /\ pc = "done"
    /\ MAX_LINE_SIZE_BYTES < MAX_FILE_SIZE_BYTES
    /\ Len(written) >= 2
    /\ \E k \in DOMAIN written : TotalSize(written[k].requests) = MAX_FILE_SIZE_BYTES
    /\ \E k \in DOMAIN written : Len(written[k].requests) = MAX_REQUESTS_PER_FILE

\* ---------------------------------------------------------------------- C2
\* C2: every request the loop has been through is either in exactly one batch,
\* exactly once, and not rejected, or rejected (once) and in no batch; a
\* request not yet reached is in neither.
C2_ConsumedExactlyOnce ==
    InSave =>
        \A k \in DOMAIN requests :
            LET r == requests[k]
                n == Count(Flatten(Batches), r)
                m == Count(rejected, r)
            IN IF k <= Len(Processed)
               THEN \/ n = 1 /\ m = 0 /\ ~Oversized(r)
                    \/ n = 0 /\ m = 1 /\ Oversized(r)
               ELSE n = 0 /\ m = 0

\* a finished run with a rejected request and two files
C2_Witness ==
    /\ SaveReturned
    /\ Len(written) >= 2
    /\ rejected # <<>>
    /\ Len(requests) = 3

\* ---------------------------------------------------------------------- C3
RECURSIVE DecimalValue(_)
DecimalValue(ds) ==
    IF ds = <<>> THEN 0 ELSE 10 * DecimalValue(SubSeq(ds, 1, Len(ds) - 1)) + ds[Len(ds)]

NotOversized(r) == ~Oversized(r)

\* C3: the files in the order they were written, each read top to bottom,
\* give the accepted requests in the order of the sorted input paths, that is
\* with strictly increasing custom_id.
C3_OrderPreserved ==
    InSave =>
        LET out == Flatten(Batches)
        IN /\ out = SelectSeq(Processed, NotOversized)
           /\ \A a, b \in DOMAIN out :
                a < b =>
                    /\ DecimalValue(out[a].custom_id) < DecimalValue(out[b].custom_id)
                    /\ input_files[DecimalValue(out[a].custom_id)]
                           < input_files[DecimalValue(out[b].custom_id)]

\* three accepted requests over two files, one path of the directory unused
C3_Witness ==
    /\ SaveReturned
    /\ Len(written) = 2
    /\ Len(Flatten(WrittenBatches)) = 2
    /\ \E p \in Paths : directory[p].kind = "absent" /\ p < input_files[1]

\* ---------------------------------------------------------------------- C4
AcceptedSomewhere(r) == Count(Flatten(Batches), r) >= 1

\* C4 as stated: every request whose serializedSize (JSON bytes + 1) exceeds
\* MAX_LINE_SIZE_BYTES is rejected and is in no output file.
C4_NewlineCounted ==
    InSave =>
        \A k \in 1..Len(Processed) :
            (JsonBytes(requests[k]) + 1 > MAX_LINE_SIZE_BYTES)
                => (Count(rejected, requests[k]) = 1 /\ ~AcceptedSomewhere(requests[k]))

\* C4 amended: the check is on the JSON bytes without the newline. A request
\* whose JSON encoding is longer than MAX_LINE_SIZE_BYTES is rejected and is in
\* no output file; one whose JSON encoding is exactly MAX_LINE_SIZE_BYTES long
\* (serializedSize = MAX_LINE_SIZE_BYTES + 1) is accepted.
C4_JsonBytesChecked ==
    InSave =>
        \A k \in 1..Len(Processed) :
            /\ (JsonBytes(requests[k]) > MAX_LINE_SIZE_BYTES)
                 => (Count(rejected, requests[k]) = 1 /\ ~AcceptedSomewhere(requests[k]))
            /\ (JsonBytes(requests[k]) = MAX_LINE_SIZE_BYTES)
                 => (Count(rejected, requests[k]) = 0 /\ AcceptedSomewhere(requests[k]))

\* a finished run with a request just at the limit and one above it
C4_Witness ==
    /\ SaveReturned
    /\ \E k \in DOMAIN requests : JsonBytes(requests[k]) = MAX_LINE_SIZE_BYTES
    /\ \E k \in DOMAIN requests : JsonBytes(requests[k]) = MAX_LINE_SIZE_BYTES + 1
    /\ rejected # <<>>

\* ---------------------------------------------------------------------- C5
\* the request at idx does not fit into the batch in progress
DoesNotFit ==
    \/ Len(current_requests) + 1 > MAX_REQUESTS_PER_FILE
    \/ current_size_bytes + JsonBytes(requests[idx]) + 1 > MAX_FILE_SIZE_BYTES

C5_Step ==
    (pc = "save" /\ idx <= Len(requests) /\ ~Oversized(requests[idx])) =>
        IF current_requests # <<>> /\ DoesNotFit
        THEN /\ Len(written') = Len(written) + 1
             /\ written'[Len(written')].requests = current_requests
             /\ current_requests' = <<requests[idx]>>
             /\ rejected' = rejected
        ELSE /\ written' = written
             /\ current_requests' = Append(current_requests, requests[idx])
             /\ rejected' = rejected

C5_Accepted ==
    InSave => \A k \in 1..Len(Processed) :
                  ~Oversized(requests[k]) => AcceptedSomewhere(requests[k])

\* C5: only a request above the line limit is rejected. Every other request
\* is in some batch, and when it does not fit into the non-empty batch in
\* progress that batch is written and the request opens the next one.
C5_OnlyOversizeRejects == []C5_Accepted /\ [][C5_Step]_vars

\* a batch written because of the size limit alone, the request opening the next
C5_Witness ==
    /\ pc = "save"
    /\ written # <<>>
    /\ Len(current_requests) = 1
    /\ Len(written[Len(written)].requests) < MAX_REQUESTS_PER_FILE
    /\ rejected = <<>>

\* ---------------------------------------------------------------------- C6
\* what was handed to _write_jsonl_file, without the outcome of the write
WrittenFiles ==
    [k \in 1..Len(written) |->
        [index |-> written[k].index, name |-> written[k].name,
         requests |-> written[k].requests]]

\* C6: the files of a run (number, names, members, order) are those
\* save_jsonl_file produces for the same list without its oversized requests.
C6_OversizedHasNoInfluence ==
    SaveReturned => WrittenFiles = save_jsonl_file(SelectSeq(requests, NotOversized))

\* a finished run of two files with an oversized request between accepted ones
C6_Witness ==
    /\ SaveReturned
    /\ Len(written) = 2
    /\ Len(requests) = 3
    /\ Oversized(requests[2])
    /\ ~Oversized(requests[1])
    /\ ~Oversized(requests[3])

\* ---------------------------------------------------------------------- C7
\* N requests of one small size: none oversized, and a file of
\* MAX_REQUESTS_PER_FILE of them stays within MAX_FILE_SIZE_BYTES
UniformSmall ==
    /\ requests # <<>>
    /\ \A k \in DOMAIN requests :
        /\ JsonBytes(requests[k]) = JsonBytes(requests[1])
        /\ ~Oversized(requests[k])
    /\ MAX_REQUESTS_PER_FILE * (JsonBytes(requests[1]) + 1) <= MAX_FILE_SIZE_BYTES

CeilDiv(n, m) == (n + m - 1) \div m

\* C7: N > MAX_REQUESTS_PER_FILE requests of uniform small size give
\* ceil(N / MAX_REQUESTS_PER_FILE) files, all but the last of exactly
\* MAX_REQUESTS_PER_FILE requests, whose concatenation is the input list.
C7_CountSplit ==
    (SaveReturned /\ UniformSmall /\ Len(requests) > MAX_REQUESTS_PER_FILE) =>
        /\ Len(written) = CeilDiv(Len(requests), MAX_REQUESTS_PER_FILE)
        /\ \A k \in 1..(Len(written) - 1) :
               Len(written[k].requests) = MAX_REQUESTS_PER_FILE
        /\ Flatten(WrittenBatches) = requests

\* three requests under a limit of two: files of two and one
C7_Witness ==
    /\ SaveReturned
    /\ UniformSmall
    /\ MAX_REQUESTS_PER_FILE = 2
    /\ Len(requests) = 3
    /\ Len(written) = 2

\* ---------------------------------------------------------------------- C8
FewAndSmall ==
    /\ SaveReturned
    /\ Len(input_files) < MAX_REQUESTS_PER_FILE
    /\ TotalSize(requests) < MAX_FILE_SIZE_BYTES

OneBatchWithAll ==
    /\ Len(written) = 1
    /\ written[1].requests = requests

PartName(k) ==
    IF k = 1 THEN <<"batch", ".jsonl">> ELSE <<"batch", "_part", k, ".jsonl">>

\* C9: the k-th batch written goes to <base>.jsonl for k = 1 and to
\* <base>_part<k>.jsonl for k >= 2, whatever was rejected in between; with a
\* limit of two and records A, B, C: batch.jsonl = [A, B], batch_part2.jsonl = [C].
C9_NamesFollowSealOrder ==
    /\ \A k \in DOMAIN written :
        /\ written[k].name = PartName(k)
        /\ output_files[k] \in {PartName(k), None}
        /\ written[k].ok => output_files[k] = PartName(k)
    /\ Len(output_files) = Len(written)
    /\ pc = "save" => file_index = Len(written) + 1
    /\ (SaveReturned /\ UniformSmall /\ MAX_REQUESTS_PER_FILE = 2 /\ Len(requests) = 3)
         => /\ Len(written) = 2
            /\ written[1].name = <<"batch", ".jsonl">>
            /\ written[1].requests = <<requests[1], requests[2]>>
            /\ written[2].name = <<"batch", "_part", 2, ".jsonl">>
            /\ written[2].requests = <<requests[3]>>

\* a second file written after a rejected request
C9_Witness ==
    /\ SaveReturned
    /\ Len(written) >= 2
    /\ written[2].ok
    /\ Oversized(requests[1])

\* --------------------------------------------------------------------- C10
RECURSIVE Pow10(_)
Pow10(n) == IF n = 0 THEN 1 ELSE 10 * Pow10(n - 1)

\* the decimal digits of n at the width of a custom_id (n below 10^5)
FiveDigits(n) == [j \in 1..5 |-> (n \div Pow10(5 - j)) % 10]

Readable(p) == directory[p].kind = "text"

\* positions of input_files already visited whose file could be read
LoadedPositions ==
    SelectSeq([k \in 1..(i - 1) |-> k], LAMBDA k : Readable(input_files[k]))

\* C10: the record of the file at position i of the sorted list has the
\* zero-padded decimal of i as custom_id, whatever was skipped before it; the
\* custom_ids of a run are pairwise distinct and strictly increasing.
C10_CustomIdIsPosition ==
    /\ Len(requests) = Len(LoadedPositions)
    /\ \A k \in DOMAIN requests :
        /\ requests[k].custom_id = FiveDigits(LoadedPositions[k])
        /\ requests[k].body.messages[2].content
               = <<"text", directory[input_files[LoadedPositions[k]]].json_bytes>>
    /\ \A a, b \in DOMAIN requests :
        a < b => /\ requests[a].custom_id # requests[b].custom_id
                 /\ DecimalValue(requests[a].custom_id) < DecimalValue(requests[b].custom_id)

\* a record built after an unreadable file: its custom_id is not its rank
C10_Witness ==
    /\ pc = "done"
    /\ Len(requests) = 2
    /\ skipped_count >= 1
    /\ ~Readable(input_files[1])
    /\ requests[1].custom_id = <<0, 0, 0, 0, 2>>

\* ======================================================================
\* The custom_id format on its own
\* ======================================================================
IdSpan == 30

\* the limits the class declares
DEFAULT_MAX_REQUESTS_PER_FILE == 50000
DEFAULT_MAX_FILE_SIZE_MB == 500
DEFAULT_MAX_LINE_SIZE_MB == 6

DefaultLimits ==
    /\ MAX_REQUESTS_PER_FILE = DEFAULT_MAX_REQUESTS_PER_FILE
    /\ MAX_FILE_SIZE_BYTES = DEFAULT_MAX_FILE_SIZE_MB * 1024 * 1024
    /\ MAX_LINE_SIZE_BYTES = DEFAULT_MAX_LINE_SIZE_MB * 1024 * 1024

EmptyDirectory == [p \in Paths |-> [kind |-> "absent", json_bytes |-> 0]]

\* everything generate_jsonl and save_jsonl_file read or write, pc apart
run_vars == <<directory, limits, build_vars, save_vars, result>>

\* the first position whose decimal has more digits than the width
FirstWidePosition == Pow10(ID_WIDTH)

\* positions of enumerate(input_files, 1): the first ones, and those around
\* the first position with more digits than the width
IdPositions ==
    (1..IdSpan) \cup ((FirstWidePosition - IdSpan)..(FirstWidePosition + IdSpan))

IdInit ==
    /\ position \in IdPositions
    /\ custom_id_text = <<>>
    /\ pc = "format"
    /\ directory = EmptyDirectory
    /\ DefaultLimits
    /\ argv = ExampleArgv
    /\ generator = NewGenerator(ExampleArgv)
    /\ output_dir_created = TRUE
    /\ exit_code = -1
    /\ RecordIdle
    /\ ExtractorIdle
    /\ RenameIdle
    /\ AppIdle
    /\ GeneratorIdle

\* line 202 for the file at the position
FormatPosition ==
    /\ pc = "format"
    /\ custom_id_text' = FormatCustomId(position)
    /\ pc' = "formatted"
    /\ UNCHANGED <<generator, main_vars, position, rec_vars, ext_vars, ren_vars, app_vars, run_vars>>

IdNext == FormatPosition

SpecId == IdInit /\ [][IdNext]_vars

Unconstructed == [model |-> "", temperature |-> 0, system_prompt |-> ""]

\* command lines: the input directory exists or not; temperatures -0.1, 0.0,
\* 0.5, 2.0 and 2.1 (in tenths); two models with their prompts
ArgvChoices ==
    {[input_dir_exists |-> e, model |-> m[1], temperature |-> t, system_prompt |-> m[2]] :
        e \in BOOLEAN,
        t \in {0 - 1, 0, 5, 20, 21},
        m \in {<<"qwen-plus", "You are helpful">>, <<"test-model", "You are helpful.">>}}

\* 0.0 <= args.temperature <= 2.0, line 275
TemperatureInRangeExclusive(t) == 0 < t /\ t < 20
TemperatureInRange(t) == 0 <= t /\ t <= 20

MainInit ==
    /\ directory \in [Paths -> FileStates]
    /\ MAX_REQUESTS_PER_FILE = 2
    /\ MAX_FILE_SIZE_BYTES = MaxFileLimit
    /\ MAX_LINE_SIZE_BYTES = 1
    /\ argv \in ArgvChoices
    /\ generator = Unconstructed
    /\ output_dir_created = FALSE
    /\ exit_code = -1
    /\ IdIdle
    /\ RecordIdle
    /\ ExtractorIdle
    /\ RenameIdle
    /\ AppIdle
    /\ pc = "main"
    /\ GeneratorIdle

\* lines 263-266: the input directory does not exist
MainMissingInputDir ==
    /\ pc = "main"
    /\ ~argv.input_dir_exists
    /\ exit_code' = 1
    /\ pc' = "exit"
    /\ UNCHANGED <<generator, argv, output_dir_created, id_vars, rec_vars, ext_vars, ren_vars, app_vars, run_vars>>

\* lines 274-277: the temperature is out of range
MainBadTemperature ==
    /\ pc = "main"
    /\ argv.input_dir_exists
    /\ ~TemperatureInRange(argv.temperature)
    /\ exit_code' = 1
    /\ pc' = "exit"
    /\ UNCHANGED <<generator, argv, output_dir_created, id_vars, rec_vars, ext_vars, ren_vars, app_vars, run_vars>>

\* lines 279-289 and 41-51: the generator is constructed (its __init__
\* creates the output directory) and generate_jsonl is called
MainConstruct ==
    /\ pc = "main"
    /\ argv.input_dir_exists
    /\ TemperatureInRange(argv.temperature)
    /\ generator' = NewGenerator(argv)
    /\ output_dir_created' = TRUE
    /\ pc' = "start"
    /\ UNCHANGED <<argv, exit_code, id_vars, rec_vars, ext_vars, ren_vars, app_vars, run_vars>>

\* lines 289-296: 0 when the list generate_jsonl returned is not empty
MainReturn ==
    /\ pc = "done"
    /\ exit_code' = IF result # <<>> THEN 0 ELSE 1
    /\ pc' = "exit"
    /\ UNCHANGED <<generator, argv, output_dir_created, id_vars, rec_vars, ext_vars, ren_vars, app_vars, run_vars>>

MainNext ==
    \/ MainMissingInputDir
    \/ MainBadTemperature
    \/ MainConstruct
    \/ MainReturn
    \/ ScanInputFiles
    \/ SkipUnreadableFile
    \/ LoadFile
    \/ NothingLoaded
    \/ EnterSave
    \/ RejectRequest
    \/ SplitAndAppend
    \/ AppendRequest
    \/ FlushLast
    \/ ReturnNoBatch

SpecMain == MainInit /\ [][MainNext]_vars

\* --------------------------------------------------------------------- C12
\* some file reached storage
SomeFileWritten == \E k \in DOMAIN written : written[k].ok

\* C12: main returns 0 if and only if at least one output file was written
\* during the invocation, and 1 otherwise.
C12_ExitZeroIffFileWritten ==
    pc = "exit" => /\ exit_code \in {0, 1}
                   /\ exit_code = 0 <=> SomeFileWritten

\* --------------------------------------------------------------------- C13
\* positions of input_files the loop of generate_jsonl has been through
Visited == 1..(i - 1)

\* the records that carry the custom_id of position k
RecordsOfPosition(k) ==
    LET id == FiveDigits(k) IN {j \in DOMAIN requests : requests[j].custom_id = id}

\* C13: whichever files fail to read, there is exactly one record for each
\* readable file visited and none for an unreadable one, the skip counter
\* counts the unreadable ones (loaded + skipped = visited), and the loop goes
\* on to the last discovered file.
C13_UnreadableIsolated ==
    (pc \in {"load", "save", "done"} /\ input_files # <<>>) =>
        /\ \A k \in Visited :
               Cardinality(RecordsOfPosition(k)) = IF Readable(input_files[k]) THEN 1 ELSE 0
        /\ skipped_count = Cardinality({k \in Visited : ~Readable(input_files[k])})
        /\ Len(requests) + skipped_count = i - 1
        /\ pc \in {"save", "done"} => i - 1 = Len(input_files)

\* a finished run whose second of three files could not be read
C13_Witness ==
    /\ pc = "done"
    /\ Len(input_files) = 3
    /\ ~Readable(input_files[2])
    /\ skipped_count = 1
    /\ Len(requests) = 2
    /\ written # <<>>

\* --------------------------------------------------------------------- C14
\* C14: the outcome of a write changes nothing else. The batches handed to
\* _write_jsonl_file, with their names and contents, are those of a run in
\* which no write fails; each is handed over once, under its own index; a
\* failed one leaves None in the returned list and its records are in no
\* later batch.
C14_WriteFailureIsolated ==
    SaveReturned =>
        /\ WrittenFiles = save_jsonl_file(requests)
        /\ \A a, b \in DOMAIN written :
               a < b => /\ written[a].index < written[b].index
                        /\ written[a].name # written[b].name
                        /\ \A j \in DOMAIN written[a].requests :
                               Count(written[b].requests, written[a].requests[j]) = 0
        /\ \A k \in DOMAIN written :
               output_files[k] = IF written[k].ok THEN written[k].name ELSE None

\* three files of which the second could not be written
C14_Witness ==
    /\ SaveReturned
    /\ Len(written) = 3
    /\ written[1].ok
    /\ ~written[2].ok
    /\ written[3].ok

\* --------------------------------------------------------------------- C15
InvalidArgument ==
    \/ ~argv.input_dir_exists
    \/ argv.temperature < 0
    \/ argv.temperature > 20

\* C15: with a missing input directory or a temperature outside [0.0, 2.0]
\* main returns 1 without constructing the generator: no output directory is
\* created and nothing is written. Temperatures 0.0 and 2.0 are accepted.
C15_InvalidArgumentFatal ==
    /\ InvalidArgument =>
        /\ pc \in {"main", "exit"}
        /\ generator = Unconstructed
        /\ ~output_dir_created
        /\ written = <<>>
        /\ output_files = <<>>
        /\ exit_code # 0
        /\ pc = "exit" => exit_code = 1
    /\ (argv.input_dir_exists /\ argv.temperature \in {0, 20} /\ pc # "main") =>
        /\ generator = NewGenerator(argv)
        /\ output_dir_created
        /\ pc = "exit" => input_files = SortedSeq(MatchedFiles(directory))

\* main has returned 1 for temperature 2.1 on an existing, non-empty directory
C15_Witness ==
    /\ pc = "exit"
    /\ argv.input_dir_exists
    /\ argv.temperature = 21
    /\ exit_code = 1
    /\ MatchedFiles(directory) # {}

\* --------------------------------------------------------------------- C16
\* what a step may do to the files and to the batch in progress
C16_Step ==
    /\ Len(written') <= Len(written) + 1
    /\ \A k \in DOMAIN written : written'[k] = written[k]
    /\ Len(written') = Len(written) + 1 =>
        /\ current_requests # <<>>
        /\ written'[Len(written')].requests = current_requests
        /\ written'[Len(written')].index = file_index
        /\ \/ pc' = "done" /\ idx > Len(requests)
           \/ /\ pc' = "save"
              /\ DoesNotFit
              /\ current_requests' = <<requests[idx]>>
              /\ file_index' = file_index + 1
    /\ (pc = "save" /\ pc' = "save" /\ written' = written) =>
        /\ file_index' = file_index
        /\ \/ current_requests' = current_requests
           \/ current_requests' = Append(current_requests, requests[idx])

\* a written batch is written under an index of its own, and the batch in
\* progress is another one
C16_Sealed ==
    /\ \A a, b \in DOMAIN written : a # b => written[a].index # written[b].index
    /\ pc = "save" =>
        /\ \A k \in DOMAIN written : written[k].index < file_index
        /\ \A k \in DOMAIN written : \A j \in DOMAIN current_requests :
               Count(written[k].requests, current_requests[j]) = 0

\* C16: a batch is empty, then accumulates, then is sealed. It is written
\* only when it is sealed (the next request does not fit, or the list has
\* ended), once, with the records it then holds; nothing is added to it
\* afterwards, and a step writes at most one file.
C16_BatchLifecycle == []C16_Sealed /\ [][C16_Step]_vars

\* a batch of two sealed by a limit, then the last one sealed at the end
C16_Witness ==
    /\ pc = "done"
    /\ Len(written) = 2
    /\ Len(written[1].requests) = 2
    /\ Len(written[2].requests) = 1

\* ---------------------------------------------------------------------------
\* The request object of a file, character by character
\* ---------------------------------------------------------------------------
\* Here a file is the sequence of characters stored in it, and two files are
\* read and turned into request objects as lines 200-211 do.

MaxTextLen == 2

CR == "CR"
LF == "LF"
Chars == {"a", CR, LF}

RECURSIVE TextsOfLength(_)
TextsOfLength(n) ==
    IF n = 0 THEN {<<>>}
    ELSE {Append(t, c) : t \in TextsOfLength(n - 1), c \in Chars}

Texts == UNION {TextsOfLength(n) : n \in 0..MaxTextLen}

\* open(file_path, 'r', encoding='utf-8') has newline=None: f.read() gives
\* "\n" for each "\r\n" and for each other "\r"
RECURSIVE UniversalNewlines(_)
UniversalNewlines(t) ==
    IF t = <<>> THEN <<>>
    ELSE IF Head(t) = CR
         THEN <<LF>> \o UniversalNewlines(IF Len(t) >= 2 /\ t[2] = LF
                                          THEN SubSeq(t, 3, Len(t))
                                          ELSE Tail(t))
         ELSE <<Head(t)>> \o UniversalNewlines(Tail(t))

\* lines 66-67
ReadText(stored) == UniversalNewlines(stored)

\* the command lines main accepts
AcceptedArgv ==
    {a \in ArgvChoices : a.input_dir_exists /\ TemperatureInRange(a.temperature)}

RecordInit ==
    /\ file_texts \in Texts \X Texts
    /\ records = <<>>
    /\ argv \in AcceptedArgv
    /\ generator = NewGenerator(argv)
    /\ output_dir_created = TRUE
    /\ exit_code = -1
    /\ IdIdle
    /\ ExtractorIdle
    /\ RenameIdle
    /\ AppIdle
    /\ pc = "record"
    /\ directory = EmptyDirectory
    /\ DefaultLimits
    /\ GeneratorIdle

\* lines 200-211 for the next file: it is read and its request object built
BuildRecord ==
    /\ pc = "record"
    /\ Len(records) < Len(file_texts)
    /\ LET k == Len(records) + 1
       IN records' = Append(records,
              create_request_object(FormatCustomId(k), ReadText(file_texts[k])))
    /\ UNCHANGED <<generator, main_vars, id_vars, file_texts, ext_vars, pc, ren_vars, app_vars, run_vars>>

RecordNext == BuildRecord

SpecRecord == RecordInit /\ [][RecordNext]_vars

\* --------------------------------------------------------------------- C17
NoLineEnds(t) == SelectSeq(t, LAMBDA c : c \notin {CR, LF})

CountOf(t, c) == Cardinality({k \in DOMAIN t : t[k] = c})

\* the line ends of a stored text: "\r\n" is one, any other "\r" or "\n" is one
LineEnds(t) ==
    CountOf(t, CR) + CountOf(t, LF)
        - Cardinality({k \in 1..(Len(t) - 1) : t[k] = CR /\ t[k + 1] = LF})

\* method, url, the arguments of the run, and the order of the two messages
FixedShape(r) ==
    /\ r.method = "POST"
    /\ r.url = "/v1/chat/completions"
    /\ r.body.model = argv.model
    /\ r.body.temperature = argv.temperature
    /\ Len(r.body.messages) = 2
    /\ r.body.messages[1] = [role |-> "system", content |-> argv.system_prompt]
    /\ r.body.messages[2].role = "user"

\* C17 as stated: every record has the fixed shape with the arguments of the
\* run, and its user content is the characters stored in its file, unchanged.
C17_StoredTextVerbatim ==
    \A k \in DOMAIN records :
        /\ FixedShape(records[k])
        /\ records[k].body.messages[2].content = file_texts[k]

\* C17: every record has method "POST", url "/v1/chat/completions", the
\* model, temperature and system prompt of the command line in every record
\* of the run, the system message first and the user message second; the user
\* content is the text of the file as Python reads it: every line end of the
\* file ("\r\n", "\r" or "\n") is one "\n", every other character is kept in
\* place, and a text without "\r" is kept as it is.
C17_TextWithUniversalNewlines ==
    \A k \in DOMAIN records :
        LET content == records[k].body.messages[2].content
        IN /\ FixedShape(records[k])
           /\ CountOf(content, CR) = 0
           /\ NoLineEnds(content) = NoLineEnds(file_texts[k])
           /\ CountOf(content, LF) = LineEnds(file_texts[k])
           /\ CountOf(file_texts[k], CR) = 0 => content = file_texts[k]

\* both records are built; the first file holds "\r\n", the second "a\r"
C17_Witness ==
    /\ Len(records) = 2
    /\ file_texts[1] = <<CR, LF>>
    /\ file_texts[2] = <<"a", CR>>
    /\ records[1].body.messages[2].content = <<LF>>
    /\ records[2].body.messages[2].content = <<"a", LF>>

\* --------------------------------------------------------------------- C18
\* the requests of a directory: its matching files in sorted order, each
\* readable one with the custom_id of its position
RequestsOfDirectory ==
    LET files == SortedSeq(MatchedFiles(directory))
        readable == SelectSeq([k \in 1..Len(files) |-> k],
                              LAMBDA k : directory[files[k]].kind = "text")
    IN [j \in 1..Len(readable) |->
           create_request_object(FormatCustomId(readable[j]),
                                 read_file_content(files[readable[j]]))]

Dict(pairs) == [key \in {e.k : e \in pairs} |-> (CHOOSE e \in pairs : e.k = key).v]

Pair(key, value) == [k |-> key, v |-> value]

\* isinstance(node, dict) and key in node
HasKey(node, key) == node.t = "dict" /\ key \in DOMAIN node.v

\* the walk "for key in p" of lines 37-47 and 73-82
RECURSIVE Descend(_, _)
Descend(node, p) ==
    IF p = <<>> THEN [ok |-> TRUE, node |-> node]
    ELSE IF HasKey(node, Head(p)) THEN Descend(node.v[Head(p)], Tail(p))
    ELSE [ok |-> FALSE, node |-> JNull]

paths_to_try ==
    << <<"response", "body", "choices">>,
       <<"response", "choices">>,
       <<"choices">>,
       <<"body", "choices">> >>

try_paths == << <<"response", "body">>, <<"response">>, <<>> >>

\* 'message' in node and isinstance(node['message'], dict) and 'content' in it
HasMessageContent(node) ==
    HasKey(node, "message") /\ HasKey(node.v["message"], "content")

NotFound == [found |-> FALSE, raw |-> JNull]

\* lines 49-62: what the first element of a choices list gives; found is the
\* break, which is taken with whatever value the key holds
ProbeChoices(node) ==
    IF node.t = "list" /\ Len(node.v) > 0
    THEN LET first == node.v[1]
         IN IF HasMessageContent(first)
            THEN [found |-> TRUE, raw |-> first.v["message"].v["content"]]
            ELSE IF HasKey(first, "text")
                 THEN [found |-> TRUE, raw |-> first.v["text"]]
                 ELSE IF first.t = "str"
                      THEN [found |-> TRUE, raw |-> first]
                      ELSE NotFound
    ELSE NotFound

\* the loop over paths_to_try, lines 36-63
RECURSIVE ChoicesLoop(_, _)
ChoicesLoop(rec, k) ==
    IF k > Len(paths_to_try) THEN JNull
    ELSE LET d == Descend(rec, paths_to_try[k])
             probe == IF d.ok THEN ProbeChoices(d.node) ELSE NotFound
         IN IF probe.found THEN probe.raw ELSE ChoicesLoop(rec, k + 1)

\* lines 83-88
ProbeFallback(node) ==
    IF HasMessageContent(node)
    THEN [found |-> TRUE, raw |-> node.v["message"].v["content"]]
    ELSE IF node.t = "str"
         THEN [found |-> TRUE, raw |-> node]
         ELSE NotFound

\* the loop over try_paths, lines 72-88
RECURSIVE FallbackLoop(_, _)
FallbackLoop(rec, k) ==
    IF k > Len(try_paths) THEN JNull
    ELSE LET d == Descend(rec, try_paths[k])
             probe == IF d.ok THEN ProbeFallback(d.node) ELSE NotFound
         IN IF probe.found THEN probe.raw ELSE FallbackLoop(rec, k + 1)

\* raw as it stands at line 90
LocateRaw(rec) ==
    LET raw == ChoicesLoop(rec, 1)
    IN IF raw.t = "null" THEN FallbackLoop(rec, 1) ELSE raw

\* the JSON documents among the content strings of the model
SampleObject == JDict(Dict({Pair("a", JNum(1))}))
SampleObjectText == "{\"a\": 1}"

\* json.loads(raw) returns
JsonParses(text) == text \in {"null", SampleObjectText}

JsonLoads(text) ==
    CASE text = "null" -> JNull
      [] text = SampleObjectText -> SampleObject

\* json.dumps(raw, ensure_ascii=False) of a content that is not a string
JsonDumps(value) ==
    CASE value = SampleObject -> SampleObjectText
      [] value.t = "num" -> ToString(value.v)

\* lines 90-102
extract_content_from_record(rec) ==
    LET raw == LocateRaw(rec)
    IN IF raw.t = "null"
       THEN [content_obj |-> JNull, raw_content |-> JNull, returned |-> TRUE]
       ELSE IF raw.t # "str"
            THEN [content_obj |-> raw, raw_content |-> JStr(JsonDumps(raw)),
                  returned |-> TRUE]
            ELSE IF JsonParses(raw.v)
                 THEN [content_obj |-> JsonLoads(raw.v), raw_content |-> raw,
                       returned |-> TRUE]
                 ELSE [content_obj |-> JNull, raw_content |-> raw, returned |-> TRUE]

\* the truth value Python gives a JSON value
Truthy(value) ==
    CASE value.t = "str" -> value.v # ""
      [] value.t = "num" -> value.v # 0
      [] value.t = "null" -> FALSE
      [] value.t = "dict" -> DOMAIN value.v # {}
      [] value.t = "list" -> Len(value.v) > 0

\* dict.get(key)
Get(node, key) == IF key \in DOMAIN node.v THEN node.v[key] ELSE JNull

\* str(custom_id)
PyStr(value) ==
    CASE value.t = "str" -> value.v
      [] value.t = "num" -> ToString(value.v)

RECURSIVE JoinDigits(_)
JoinDigits(ds) == IF ds = <<>> THEN "" ELSE ToString(Head(ds)) \o JoinDigits(Tail(ds))

\* lines 140-142
CustomIdOf(rec, n) ==
    IF Truthy(Get(rec, "custom_id")) THEN PyStr(Get(rec, "custom_id"))
    ELSE IF Truthy(Get(rec, "id")) THEN PyStr(Get(rec, "id"))
    ELSE "row" \o JoinDigits(ZeroPad(Digits(n), 6))

\* line 159
OutPath(rec, n) == CustomIdOf(rec, n) \o ".json"

\* lines 162-172: what json.dump writes
SavedValue(rec) ==
    LET e == extract_content_from_record(rec)
    IN IF e.content_obj # JNull THEN e.content_obj
       ELSE IF e.raw_content # JNull THEN JDict(Dict({Pair("content", e.raw_content)}))
       ELSE rec

\* lines 183-194
UsageObject(rec) ==
    LET resp == Get(rec, "response")
        inner == IF resp.t = "dict"
                 THEN IF HasKey(Get(resp, "body"), "usage")
                      THEN resp.v["body"].v["usage"]
                      ELSE IF HasKey(resp, "usage") THEN resp.v["usage"] ELSE JNull
                 ELSE JNull
    IN IF inner.t = "null" /\ HasKey(rec, "usage") THEN rec.v["usage"] ELSE inner

\* lines 109-112 for one key
AddUsage(acc, usage_obj, key) ==
    IF HasKey(usage_obj, key) /\ usage_obj.v[key].t = "num"
    THEN (key :> ((IF key \in DOMAIN acc THEN acc[key] ELSE 0) + usage_obj.v[key].v)) @@ acc
    ELSE acc

aggregate_usage(acc, usage_obj) ==
    IF usage_obj.t # "dict" THEN acc
    ELSE AddUsage(AddUsage(AddUsage(acc, usage_obj, "prompt_tokens"),
                           usage_obj, "completion_tokens"),
                  usage_obj, "total_tokens")

\* ---- the lines of the files the model reads ----

\* the usage object of a response
SampleUsage ==
    JDict(Dict({Pair("prompt_tokens", JNum(1)), Pair("completion_tokens", JNum(2)),
                Pair("total_tokens", JNum(3))}))

\* where a record holds it: nowhere, in response.body, in response, in itself
UsageChoices == {"none", "body", "response", "record"}

UsageEntry(usage, at) == IF usage = at THEN {Pair("usage", SampleUsage)} ELSE {}

\* the content under response.body.choices[0].message: no key, or a value
ContentChoices ==
    {[present |-> FALSE, v |-> JNull]}
        \cup {[present |-> TRUE, v |-> c] :
                c \in {JStr("hi"), JStr("null"), JStr(SampleObjectText), SampleObject, JNull}}

IdChoices ==
    {{Pair("custom_id", JStr("00001"))}, {Pair("custom_id", JStr("00002"))},
     {Pair("id", JStr("00001"))}, {}}

MakeRecord(ids, content, usage) ==
    LET message == JDict(Dict({Pair("role", JStr("assistant"))}
                        \cup (IF content.present THEN {Pair("content", content.v)} ELSE {})))
        choices == JList(<<JDict(Dict({Pair("message", message)}))>>)
        body == JDict(Dict({Pair("choices", choices)} \cup UsageEntry(usage, "body")))
        response == JDict(Dict({Pair("body", body)} \cup UsageEntry(usage, "response")))
    IN JDict(Dict(ids \cup {Pair("response", response)} \cup UsageEntry(usage, "record")))

\* a line: blank after strip(), not JSON, or JSON with its value
BlankLine == [kind |-> "blank", value |-> JNull]
GarbageLine == [kind |-> "garbage", value |-> JNull]
JsonLine(value) == [kind |-> "json", value |-> value]

LineChoices ==
    {BlankLine, GarbageLine, JsonLine(JList(<<JNum(1)>>))}
        \cup {JsonLine(MakeRecord(ids, c, u)) :
                ids \in IdChoices, c \in ContentChoices, u \in UsageChoices}

\* files of one line and of two
InputFiles == {<<a>> : a \in LineChoices} \cup (LineChoices \X LineChoices)

ExtractInit ==
    /\ lines \in InputFiles
    /\ line_no = 1
    /\ total = NewTotal
    /\ out_files = <<>>
    /\ record = JNull
    /\ extracted = NotExtracted
    /\ pc = "extract"
    /\ argv = ExampleArgv
    /\ generator = NewGenerator(ExampleArgv)
    /\ output_dir_created = TRUE
    /\ exit_code = -1
    /\ IdIdle
    /\ RecordIdle
    /\ RenameIdle
    /\ AppIdle
    /\ directory = EmptyDirectory
    /\ DefaultLimits
    /\ GeneratorIdle

AtLine == pc = "extract" /\ line_no <= Len(lines)

IsObjectLine == lines[line_no].kind = "json" /\ lines[line_no].value.t = "dict"

\* lines 127-129
SkipBlankLine ==
    /\ AtLine
    /\ lines[line_no].kind = "blank"
    /\ line_no' = line_no + 1
    /\ UNCHANGED <<generator, main_vars, id_vars, rec_vars, lines, total, out_files,
                   record, extracted, pc, ren_vars, app_vars, run_vars>>

\* (variant: the line is counted among the records as well)
SkipUnparseableLineCountsRecord ==
    /\ AtLine
    /\ lines[line_no].kind = "garbage"
    /\ total' = [total EXCEPT !.skipped = @ + 1, !.records = @ + 1]
    /\ line_no' = line_no + 1
    /\ UNCHANGED <<generator, main_vars, id_vars, rec_vars, lines, out_files,
                   record, extracted, pc, ren_vars, app_vars, run_vars>>

\* lines 130-135
SkipUnparseableLine ==
    /\ AtLine
    /\ lines[line_no].kind = "garbage"
    /\ total' = [total EXCEPT !.skipped = @ + 1]
    /\ line_no' = line_no + 1
    /\ UNCHANGED <<generator, main_vars, id_vars, rec_vars, lines, out_files,
                   record, extracted, pc, ren_vars, app_vars, run_vars>>

\* lines 137-140: the line is JSON but not an object, record.get raises and
\* nothing catches it
RaiseOnNonObject ==
    /\ AtLine
    /\ lines[line_no].kind = "json"
    /\ lines[line_no].value.t # "dict"
    /\ total' = [total EXCEPT !.records = @ + 1]
    /\ pc' = "raised"
    /\ UNCHANGED <<generator, main_vars, id_vars, rec_vars, lines, line_no, out_files,
                   record, extracted, ren_vars, app_vars, run_vars>>

\* lines 137-197 when the file is written
SaveRecord ==
    /\ AtLine
    /\ IsObjectLine
    /\ LET rec == lines[line_no].value
           usage_obj == UsageObject(rec)
       IN /\ out_files' = (OutPath(rec, line_no) :> SavedValue(rec)) @@ out_files
          /\ total' = [total EXCEPT !.records = @ + 1,
                                    !.saved = @ + 1,
                                    !.usage = IF Truthy(usage_obj)
                                              THEN aggregate_usage(@, usage_obj)
                                              ELSE @]
    /\ line_no' = line_no + 1
    /\ UNCHANGED <<generator, main_vars, id_vars, rec_vars, lines, record, extracted,
                   pc, ren_vars, app_vars, run_vars>>

\* lines 137-179 when open() or json.dump raises
SaveRecordFails ==
    /\ AtLine
    /\ IsObjectLine
    /\ total' = [total EXCEPT !.records = @ + 1, !.skipped = @ + 1]
    /\ line_no' = line_no + 1
    /\ UNCHANGED <<generator, main_vars, id_vars, rec_vars, lines, out_files,
                   record, extracted, pc, ren_vars, app_vars, run_vars>>

\* lines 199-217 with stats_path None
ReturnTotal ==
    /\ pc = "extract"
    /\ line_no > Len(lines)
    /\ pc' = "extracted"
    /\ UNCHANGED <<generator, main_vars, id_vars, rec_vars, ext_vars, ren_vars, app_vars, run_vars>>

ExtractNext ==
    \/ SkipBlankLine
    \/ SkipUnparseableLine
    \/ RaiseOnNonObject
    \/ SaveRecord
    \/ SaveRecordFails
    \/ ReturnTotal

SpecExtract == ExtractInit /\ [][ExtractNext]_vars

\* --------------------------------------------------------------------- C19
\* the content string of a record of LineChoices, when it has one
ContentString(rec) ==
    LET message == rec.v["response"].v["body"].v["choices"].v[1].v["message"]
    IN IF HasKey(message, "content") /\ message.v["content"].t = "str"
       THEN message.v["content"]
       ELSE JNull

ContentMissing(rec) ==
    ~HasKey(rec.v["response"].v["body"].v["choices"].v[1].v["message"], "content")

\* the file a record is to give
ExpectedFile(rec) ==
    IF ContentString(rec) # JNull
    THEN IF JsonParses(ContentString(rec).v)
         THEN JsonLoads(ContentString(rec).v)
         ELSE JDict(Dict({Pair("content", ContentString(rec))}))
    ELSE rec

C19_Step ==
    (AtLine /\ IsObjectLine /\ total'.saved = total.saved + 1
        /\ (ContentString(lines[line_no].value) # JNull
                \/ ContentMissing(lines[line_no].value)))
    => /\ OutPath(lines[line_no].value, line_no) \in DOMAIN out_files'
       /\ out_files'[OutPath(lines[line_no].value, line_no)]
              = ExpectedFile(lines[line_no].value)

\* C19: the file written for a record whose content is a string holds the
\* parsed value when the string parses as JSON and {"content": string} when
\* it does not; for a record without content it holds the record.
C19_FileByContent == [][C19_Step]_vars

\* ---------------------------------------------------------------------------
\* extract_content_from_record on its own
\* ---------------------------------------------------------------------------
\* Records that hold, under each of the four choices paths, nothing or a list
\* in one of the shapes the function knows; every content names its place.

Absent == [present |-> FALSE, v |-> JNull]
Present(value) == [present |-> TRUE, v |-> value]

Entry(key, option) == IF option.present THEN {Pair(key, option.v)} ELSE {}

\* a dict when it has an entry, nothing otherwise
DictOrAbsent(pairs) == IF pairs = {} THEN Absent ELSE Present(JDict(Dict(pairs)))

ChoicesOptions(place) ==
    LET m == JDict(Dict({Pair("content", JStr(place \o ".message"))}))
        n == JDict(Dict({Pair("content", JNull)}))
        t == JStr(place \o ".text")
    IN {Absent,
        Present(JList(<<>>)),
        Present(JList(<<JDict(Dict({Pair("index", JNum(0))}))>>)),
        Present(JList(<<JDict(Dict({Pair("message", m)}))>>)),
        Present(JList(<<JDict(Dict({Pair("message", n)}))>>)),
        Present(JList(<<JDict(Dict({Pair("text", t)}))>>)),
        Present(JList(<<JDict(Dict({Pair("message", m), Pair("text", t)}))>>)),
        Present(JList(<<JDict(Dict({Pair("message", n), Pair("text", t)}))>>)),
        Present(JList(<<JStr(place \o ".string")>>))}

\* response.body.message, which only the last resort of lines 65-88 looks at
MessageOptions ==
    {Absent, Present(JDict(Dict({Pair("content", JStr("response.body.message"))})))}

LocateRecord(c1, c2, c3, c4, msg) ==
    LET inner == DictOrAbsent(Entry("choices", c1) \cup Entry("message", msg))
        response == DictOrAbsent(Entry("body", inner) \cup Entry("choices", c2))
        body == DictOrAbsent(Entry("choices", c4))
    IN JDict(Dict({Pair("custom_id", JStr("00001"))}
                    \cup Entry("response", response)
                    \cup Entry("choices", c3)
                    \cup Entry("body", body)))

LocateRecords ==
    {LocateRecord(c1, c2, c3, c4, msg) :
        c1 \in ChoicesOptions("response.body.choices"),
        c2 \in ChoicesOptions("response.choices"),
        c3 \in ChoicesOptions("choices"),
        c4 \in ChoicesOptions("body.choices"),
        msg \in MessageOptions}

LocateInit ==
    /\ record \in LocateRecords
    /\ extracted = NotExtracted
    /\ lines = <<>>
    /\ line_no = 1
    /\ total = NewTotal
    /\ out_files = <<>>
    /\ pc = "locate"
    /\ argv = ExampleArgv
    /\ generator = NewGenerator(ExampleArgv)
    /\ output_dir_created = TRUE
    /\ exit_code = -1
    /\ IdIdle
    /\ RecordIdle
    /\ RenameIdle
    /\ AppIdle
    /\ directory = EmptyDirectory
    /\ DefaultLimits
    /\ GeneratorIdle

\* the call of line 145
ExtractContent ==
    /\ pc = "locate"
    /\ extracted' = extract_content_from_record(record)
    /\ pc' = "located"
    /\ UNCHANGED <<generator, main_vars, id_vars, rec_vars, lines, line_no, total,
                   out_files, record, ren_vars, app_vars, run_vars>>

LocateNext == ExtractContent

SpecLocate == LocateInit /\ [][LocateNext]_vars

\* --------------------------------------------------------------------- C20
\* the twelve shapes in the order of the claim: path by path, and within the
\* first element of a list message.content, then text, then a bare string
Shapes ==
    [n \in 1..12 |-> [path |-> ((n - 1) \div 3) + 1,
                      kind |-> <<"message", "text", "string">>[((n - 1) % 3) + 1]]]

\* the content string a record carries in a shape, JNull when it carries none
Carried(rec, shape) ==
    LET d == Descend(rec, paths_to_try[shape.path])
        first == IF d.ok /\ d.node.t = "list" /\ Len(d.node.v) > 0
                 THEN d.node.v[1] ELSE JNull
        value == CASE shape.kind = "message" ->
                        IF HasMessageContent(first)
                        THEN first.v["message"].v["content"] ELSE JNull
                   [] shape.kind = "text" ->
                        IF HasKey(first, "text") THEN first.v["text"] ELSE JNull
                   [] shape.kind = "string" -> first
    IN IF value.t = "str" THEN value ELSE JNull

CarryingShapes(rec) == {n \in DOMAIN Shapes : Carried(rec, Shapes[n]) # JNull}

HighestPriority(rec) ==
    CHOOSE n \in CarryingShapes(rec) : \A o \in CarryingShapes(rec) : n <= o

\* C20: for a record that carries content in several of the shapes, the
\* content returned is the content of the first of them in the order
\* response.body.choices, response.choices, choices, body.choices and, within
\* a list, message.content, text, bare string.
C20_HighestPriorityShape ==
    (extracted.returned /\ Cardinality(CarryingShapes(record)) >= 2)
        => extracted.raw_content = Carried(record, Shapes[HighestPriority(record)])

\* --------------------------------------------------------------------- C21
C21_Step ==
    (AtLine /\ lines[line_no].kind = "garbage") =>
        /\ total'.skipped = total.skipped + 1
        /\ total'.records = total.records
        /\ total'.saved = total.saved
        /\ total'.usage = total.usage
        /\ out_files' = out_files
        /\ pc' = "extract"
        /\ line_no' = line_no + 1

\* C21: a line that is not JSON adds one to skipped and nothing else: no
\* file, the same records, saved and usage; the loop goes on with the next
\* line, and a return is reached only behind the last line.
C21_UnparseableLineSkipped ==
    [][C21_Step]_vars /\ [](pc = "extracted" => line_no = Len(lines) + 1)

\* a file whose first line is not JSON and whose second line was saved
C21_Witness ==
    /\ pc = "extracted"
    /\ Len(lines) = 2
    /\ lines[1].kind = "garbage"
    /\ total = [records |-> 1, saved |-> 1, skipped |-> 1, usage |-> <<>>]
    /\ DOMAIN out_files = {"00001.json"}

\* --------------------------------------------------------------------- C22
UsageKeys == {"prompt_tokens", "completion_tokens", "total_tokens"}

\* the usage object of a record: response.body.usage, else response.usage,
\* else record.usage; JNull when it has none
UsageOfRecord(rec) ==
    LET response == rec.v["response"]
    IN IF HasKey(response.v["body"], "usage") THEN response.v["body"].v["usage"]
       ELSE IF HasKey(response, "usage") THEN response.v["usage"]
       ELSE IF HasKey(rec, "usage") THEN rec.v["usage"]
       ELSE JNull

\* the integer a line contributes to a usage field
UsageOfLine(line, key) ==
    IF line.kind = "json" /\ line.value.t = "dict" /\ HasKey(UsageOfRecord(line.value), key)
    THEN UsageOfRecord(line.value).v[key].v
    ELSE 0

RECURSIVE SumUsage(_, _)
SumUsage(ls, key) ==
    IF ls = <<>> THEN 0 ELSE UsageOfLine(Head(ls), key) + SumUsage(Tail(ls), key)

TotalUsage(key) == IF key \in DOMAIN total.usage THEN total.usage[key] ELSE 0

\* C22: when process_jsonl_file has returned, each of the three usage totals
\* is the sum of that field over the usage objects of all parsed records.
C22_UsageIsSumOverRecords ==
    pc = "extracted" => \A key \in UsageKeys : TotalUsage(key) = SumUsage(lines, key)

\* --------------------------------------------------------------------- C23
\* C23: when process_jsonl_file has returned, the output directory holds as
\* many files as records were saved: each saved record has a file of its own.
C23_OneFilePerSavedRecord ==
    pc = "extracted" => Cardinality(DOMAIN out_files) = total.saved

\* ======================================================================
\* rename_json_by_srt.py
\* ======================================================================
\* A file name is a base, which is a number of Paths ordered as the strings
\* it stands for, and an extension in one of two spellings; the file system
\* tells the spellings apart.  What a JSON file holds is named after the
\* name it has at the start.

FileName(base, ext) == [base |-> base, ext |-> ext]

SrtNames == {FileName(b, e) : b \in Paths, e \in {".SRT", ".srt"}}
JsonNames == {FileName(b, e) : b \in Paths, e \in {".JSON", ".json"}}

\* the order of sorted() on two names: "J" and "S" come before "j" and "s"
NameBefore(a, b) ==
    \/ a.base < b.base
    \/ a.base = b.base /\ a.ext \in {".JSON", ".SRT"} /\ b.ext \in {".json", ".srt"}

RECURSIVE SortedNames(_)
SortedNames(S) ==
    IF S = {} THEN <<>>
    ELSE LET m == CHOOSE x \in S : \A y \in S \ {x} : NameBefore(x, y)
         IN <<m>> \o SortedNames(S \ {m})

\* lines 33-36
get_srt_files(dir) == SortedNames(dir)

\* lines 39-42
get_json_files(dir) == SortedNames(DOMAIN dir)

\* os.path.splitext(filename)[0]
get_base_name(filename) == filename.base

\* line 68: srt_base_name + json_extension
new_json_name(srt_file, json_file) == FileName(get_base_name(srt_file), json_file.ext)

\* directories of at most MaxFiles files
SmallSets(S) == {T \in SUBSET S : Cardinality(T) <= MaxFiles}

RenameInit ==
    /\ source_dir \in SmallSets(SrtNames)
    /\ \E names \in SmallSets(JsonNames) : target_dir = [f \in names |-> f]
    /\ srt_files = <<>>
    /\ json_files = <<>>
    /\ rename_i = 1
    /\ renamed_count = 0
    /\ rename_log = <<>>
    /\ pc = "rename_main"
    /\ argv = ExampleArgv
    /\ generator = NewGenerator(ExampleArgv)
    /\ output_dir_created = TRUE
    /\ exit_code = -1
    /\ IdIdle
    /\ RecordIdle
    /\ ExtractorIdle
    /\ AppIdle
    /\ directory = EmptyDirectory
    /\ DefaultLimits
    /\ GeneratorIdle

rename_frame == <<generator, argv, output_dir_created, id_vars, rec_vars, ext_vars, app_vars,
                  run_vars>>

\* lines 107-109
RenameScan ==
    /\ pc = "rename_main"
    /\ srt_files' = get_srt_files(source_dir)
    /\ json_files' = get_json_files(target_dir)
    /\ pc' = "rename_check"
    /\ UNCHANGED <<rename_frame, exit_code, source_dir, target_dir, rename_i, renamed_count,
                   rename_log>>

\* lines 128-133
RenameCountMismatch ==
    /\ pc = "rename_check"
    /\ Len(srt_files) # Len(json_files)
    /\ exit_code' = 1
    /\ pc' = "rename_exit"
    /\ UNCHANGED <<rename_frame, ren_vars>>

\* lines 135-137
RenameNothingFound ==
    /\ pc = "rename_check"
    /\ Len(srt_files) = Len(json_files)
    /\ Len(srt_files) = 0
    /\ exit_code' = 1
    /\ pc' = "rename_exit"
    /\ UNCHANGED <<rename_frame, ren_vars>>

\* lines 143-146: the user types something at the confirmation
RenameCancelled ==
    /\ pc = "rename_check"
    /\ Len(srt_files) = Len(json_files)
    /\ Len(srt_files) # 0
    /\ exit_code' = 0
    /\ pc' = "rename_exit"
    /\ UNCHANGED <<rename_frame, ren_vars>>

\* lines 143-149: the user presses return, rename_files is called
RenameConfirmed ==
    /\ pc = "rename_check"
    /\ Len(srt_files) = Len(json_files)
    /\ Len(srt_files) # 0
    /\ pc' = "rename"
    /\ UNCHANGED <<rename_frame, exit_code, ren_vars>>

InRenameLoop ==
    pc = "rename" /\ rename_i <= Len(srt_files) /\ rename_i <= Len(json_files)

old_name == json_files[rename_i]
new_name == new_json_name(srt_files[rename_i], json_files[rename_i])

\* lines 74-76
RenameNotNeeded ==
    /\ InRenameLoop
    /\ old_name = new_name
    /\ rename_log' = Append(rename_log, "no need")
    /\ rename_i' = rename_i + 1
    /\ UNCHANGED <<rename_frame, exit_code, pc, source_dir, target_dir, srt_files,
                   json_files, renamed_count>>

\* (variant: the file is renamed onto the existing name)
RenameOverwritesExisting ==
    /\ InRenameLoop
    /\ old_name # new_name
    /\ new_name \in DOMAIN target_dir
    /\ target_dir' = [f \in DOMAIN target_dir \ {old_name} |->
                         IF f = new_name THEN target_dir[old_name] ELSE target_dir[f]]
    /\ rename_log' = Append(rename_log, "renamed")
    /\ rename_i' = rename_i + 1
    /\ UNCHANGED <<rename_frame, exit_code, pc, source_dir, srt_files, json_files,
                   renamed_count>>

\* lines 79-81
RenameSkipExisting ==
    /\ InRenameLoop
    /\ old_name # new_name
    /\ new_name \in DOMAIN target_dir
    /\ rename_log' = Append(rename_log, "exists, skipped")
    /\ rename_i' = rename_i + 1
    /\ UNCHANGED <<rename_frame, exit_code, pc, source_dir, target_dir, srt_files,
                   json_files, renamed_count>>

\* lines 83-86
RenameFile ==
    /\ InRenameLoop
    /\ old_name # new_name
    /\ new_name \notin DOMAIN target_dir
    /\ target_dir' = [f \in (DOMAIN target_dir \ {old_name}) \cup {new_name} |->
                         IF f = new_name THEN target_dir[old_name] ELSE target_dir[f]]
    /\ renamed_count' = renamed_count + 1
    /\ rename_log' = Append(rename_log, "renamed")
    /\ rename_i' = rename_i + 1
    /\ UNCHANGED <<rename_frame, exit_code, pc, source_dir, srt_files, json_files>>

\* lines 83-88: os.rename raises
RenameRaises ==
    /\ InRenameLoop
    /\ old_name # new_name
    /\ new_name \notin DOMAIN target_dir
    /\ rename_log' = Append(rename_log, "error")
    /\ rename_i' = rename_i + 1
    /\ UNCHANGED <<rename_frame, exit_code, pc, source_dir, target_dir, srt_files,
                   json_files, renamed_count>>

\* lines 58-60, 90 and 151-156
RenameReturn ==
    /\ pc = "rename"
    /\ ~InRenameLoop
    /\ exit_code' = 0
    /\ pc' = "renamed"
    /\ UNCHANGED <<rename_frame, ren_vars>>

RenameNext ==
    \/ RenameScan
    \/ RenameCountMismatch
    \/ RenameNothingFound
    \/ RenameCancelled
    \/ RenameConfirmed
    \/ RenameNotNeeded
    \/ RenameSkipExisting
    \/ RenameFile
    \/ RenameRaises
    \/ RenameReturn

SpecRename == RenameInit /\ [][RenameNext]_vars

\* --------------------------------------------------------------------- C24
\* the name under which the directory holds what was in file f at the start
NameOfContent(f) == CHOOSE g \in DOMAIN target_dir : target_dir[g] = f

\* os.rename raised for no file
NoRenameError == \A k \in DOMAIN rename_log : rename_log[k] # "error"

\* C24: after rename_files, with n SRT files and n JSON files, the JSON file
\* that was i-th in sorted order has the base name of the i-th SRT file, for
\* every i and whatever the names were (os.rename itself not failing).
C24_RenamedInSrtOrder ==
    (pc = "renamed" /\ NoRenameError) =>
        \A k \in DOMAIN json_files :
            /\ \E g \in DOMAIN target_dir : target_dir[g] = json_files[k]
            /\ get_base_name(NameOfContent(json_files[k])) = get_base_name(srt_files[k])

\* --------------------------------------------------------------------- C29
\* what the files of the directory hold
Contents == {target_dir[g] : g \in DOMAIN target_dir}

\* C29: a step of rename_json_by_srt keeps the number of files of the target
\* directory and what they hold, each content under one name; at every point
\* the contents are those of the JSON files listed at the start.
C29_Step ==
    /\ Cardinality(DOMAIN target_dir') = Cardinality(DOMAIN target_dir)
    /\ \A g \in DOMAIN target_dir :
           Cardinality({h \in DOMAIN target_dir' : target_dir'[h] = target_dir[g]}) = 1

C29_Kept ==
    pc \in {"rename", "renamed"} =>
        /\ Cardinality(DOMAIN target_dir) = Len(json_files)
        /\ Contents = {json_files[k] : k \in DOMAIN json_files}

C29_NoDataDestroyed == [][C29_Step]_vars /\ []C29_Kept

\* a finished call that skipped a rename onto an existing name and renamed
\* another file
C29_Witness ==
    /\ pc = "renamed"
    /\ \E k \in DOMAIN rename_log : rename_log[k] = "exists, skipped"
    /\ \E k \in DOMAIN rename_log : rename_log[k] = "renamed"

\* --------------------------------------------------------------------- C25
\* the loop of save_jsonl_file is at a request it accepts
AtAccepted == pc = "save" /\ idx <= Len(requests) /\ ~Oversized(requests[idx])

\* the batch in progress is written in this step
Sealed == Len(written') = Len(written) + 1

\* the condition of the claim on the batch in progress and the request at idx
MustStartNew ==
    /\ current_requests # <<>>
    /\ \/ Len(current_requests) + 1 > MAX_REQUESTS_PER_FILE
       \/ TotalSize(current_requests) + JsonBytes(requests[idx]) + 1
              > MAX_FILE_SIZE_BYTES

\* the request at idx brings the batch in progress exactly to a limit
ReachesLimit ==
    /\ Len(current_requests) + 1 <= MAX_REQUESTS_PER_FILE
    /\ TotalSize(current_requests) + JsonBytes(requests[idx]) + 1 <= MAX_FILE_SIZE_BYTES
    /\ \/ Len(current_requests) + 1 = MAX_REQUESTS_PER_FILE
       \/ TotalSize(current_requests) + JsonBytes(requests[idx]) + 1
              = MAX_FILE_SIZE_BYTES

\* C25: in front of an accepted request a new batch is started (the batch in
\* progress written, the request alone in the next) if and only if the batch
\* in progress is non-empty and its count + 1 exceeds MAX_REQUESTS_PER_FILE or
\* its bytes + the request's size exceed MAX_FILE_SIZE_BYTES; otherwise the
\* request is appended, in particular when it reaches a limit exactly.
C25_Step ==
    AtAccepted =>
        /\ Sealed <=> MustStartNew
        /\ Sealed => /\ written'[Len(written')].requests = current_requests
                     /\ current_requests' = <<requests[idx]>>
        /\ ~Sealed => current_requests' = Append(current_requests, requests[idx])
        /\ ReachesLimit => (~Sealed /\ Len(current_requests') = Len(current_requests) + 1)

C25_SplitIffOverLimit == [][C25_Step]_vars

\* a request has just filled the batch in progress to MAX_FILE_SIZE_BYTES
\* exactly, below the count limit, and stayed in it
C25_Witness ==
    /\ pc = "save"
    /\ Len(current_requests) >= 2
    /\ Len(current_requests) < MAX_REQUESTS_PER_FILE
    /\ TotalSize(current_requests) = MAX_FILE_SIZE_BYTES
    /\ written = <<>>

\* --------------------------------------------------------------------- C26
\* the loop of save_jsonl_file is at a request it rejects
AtRejected == pc = "save" /\ idx <= Len(requests) /\ Oversized(requests[idx])

C26_Sum == InSave => current_size_bytes = TotalSize(current_requests)

C26_Step ==
    /\ AtRejected => current_size_bytes' = current_size_bytes
    /\ AtAccepted =>
           IF Sealed
           THEN current_size_bytes' = 0 + JsonBytes(requests[idx]) + 1
           ELSE current_size_bytes' = current_size_bytes + JsonBytes(requests[idx]) + 1

AllOversized == \A k \in DOMAIN requests : Oversized(requests[k])

C27_NoEmptyFile ==
    /\ \A k \in DOMAIN written : written[k].requests # <<>>
    /\ (SaveReturned /\ AllOversized) => (written = <<>> /\ result = <<>>)

\* C27: no empty batch is written: a write is of a non-empty batch in
\* progress, every file holds a request, and when every request is rejected
\* no file is written and the returned list is empty.
C27_NoEmptyBatch == []C27_NoEmptyFile /\ [][Sealed => current_requests # <<>>]_vars

\* save_jsonl_file returned after rejecting each of several requests
C27_Witness ==
    /\ SaveReturned
    /\ Len(requests) >= 2
    /\ rejected = requests
    /\ result = <<>>

\* --------------------------------------------------------------------- C28
NonBlankLines == {k \in DOMAIN lines : lines[k].kind # "blank"}
ParsedLines == {k \in DOMAIN lines : lines[k].kind = "json"}

\* C28: process_jsonl_file runs to completion for every input file, lines
\* that parse to JSON values other than objects included, and on return
\* saved + skipped is the number of non-blank lines and records the number of
\* lines that parsed as JSON.
C28_EveryLineAccounted ==
    /\ pc # "raised"
    /\ pc = "extracted" =>
           /\ total.saved + total.skipped = Cardinality(NonBlankLines)
           /\ total.records = Cardinality(ParsedLines)

\* ======================================================================
\* app.py: the batch loop of the Streamlit page
\* ======================================================================
Stems == {"a", "b"}
InputExtensions == {".txt", ".srt"}

\* the files a directory can hold at the start: sources and earlier results
DiskNames == {FileName(b, e) : b \in Stems, e \in InputExtensions \cup {".md"}}

\* what a file of the start holds
InitialText(f) == IF f.ext = ".md" THEN "old result" ELSE "source text"

\* scan_files_by_extension: the files whose extension is one of extensions
\* (given without the dot), lines 86-92
scan_files_by_extension(dir, extensions) ==
    {f \in DOMAIN dir : \E ext \in extensions : f.ext = "." \o ext}

\* the orders os.walk can list a set of files in
ScanOrders(S) ==
    {w \in [1..Cardinality(S) -> S] : \A a, b \in DOMAIN w : a # b => w[a] # w[b]}

\* lines 519-523 and 154-167: the stem of the file and the output format
OutputPath(file_path, output_format) == FileName(file_path.base, "." \o output_format)

\* what client.chat.completions.create gives for a file: a text, a message
\* without content, or an exception (also when the file cannot be read)
ApiOutcomes == {"content", "no content", "raises"}

\* process_file, lines 106-144: the value it returns
process_file(outcome, output_format) ==
    IF outcome = "raises"
    THEN IF output_format = "json"
         THEN JStr("{source_file, error}")
         ELSE JStr("error message")
    ELSE IF output_format = "json"
         THEN JStr(IF outcome = "content"
                   THEN "{source_file, ..., response: summary}"
                   ELSE "{source_file, ..., response: null}")
         ELSE IF outcome = "content" THEN JStr("summary") ELSE JNull

AppInit ==
    /\ \E names \in SUBSET DiskNames : disk = [f \in names |-> InitialText(f)]
    /\ selected_file_types \in {{"txt"}, {"txt", "srt"}}
    /\ selected_output_format \in {"md", "srt", "json"}
    /\ app_matched_files = <<>>
    /\ file_i = 1
    /\ processed_files = <<>>
    /\ app_skipped_count = 0
    /\ api_calls = <<>>
    /\ pc = "app_start"
    /\ argv = ExampleArgv
    /\ generator = NewGenerator(ExampleArgv)
    /\ output_dir_created = TRUE
    /\ exit_code = -1
    /\ IdIdle
    /\ RecordIdle
    /\ ExtractorIdle
    /\ RenameIdle
    /\ directory = EmptyDirectory
    /\ DefaultLimits
    /\ GeneratorIdle

app_frame == <<generator, main_vars, id_vars, rec_vars, ext_vars, ren_vars, run_vars>>

\* lines 495-501: the scan; nothing found returns
AppScan ==
    /\ pc = "app_start"
    /\ app_matched_files'
           \in ScanOrders(scan_files_by_extension(disk, selected_file_types))
    /\ pc' = IF app_matched_files' = <<>> THEN "app_done" ELSE "app_loop"
    /\ UNCHANGED <<app_frame, disk, selected_file_types, selected_output_format, file_i,
                   processed_files, app_skipped_count, api_calls>>

AtFile == pc = "app_loop" /\ file_i <= Len(app_matched_files)

\* line 523: output_path of the file the loop is at
output_path == OutputPath(app_matched_files[file_i], selected_output_format)

\* lines 526-528: the output file exists, the file is skipped
AppSkipExisting ==
    /\ AtFile
    /\ output_path \in DOMAIN disk
    /\ app_skipped_count' = app_skipped_count + 1
    /\ processed_files' =
           Append(processed_files, <<app_matched_files[file_i], output_path, "skipped">>)
    /\ file_i' = file_i + 1
    /\ UNCHANGED <<app_frame, pc, disk, selected_file_types, selected_output_format,
                   app_matched_files, api_calls>>

\* lines 529-535 and 168-169: the file is processed and the response written
AppProcessFile ==
    /\ AtFile
    /\ output_path \notin DOMAIN disk
    /\ \E outcome \in ApiOutcomes :
        LET response == process_file(outcome, selected_output_format)
        IN /\ response # JNull
           /\ disk' = (output_path :> response.v) @@ disk
    /\ api_calls' = Append(api_calls, app_matched_files[file_i])
    /\ processed_files' =
           Append(processed_files, <<app_matched_files[file_i], output_path, "processed">>)
    /\ file_i' = file_i + 1
    /\ UNCHANGED <<app_frame, pc, selected_file_types, selected_output_format,
                   app_matched_files, app_skipped_count>>

\* lines 529-534, 168-169 and 549-550: the response is None, open() has made
\* the file, f.write raises TypeError and the except of main ends the loop
AppSaveRaises ==
    /\ AtFile
    /\ output_path \notin DOMAIN disk
    /\ \E outcome \in ApiOutcomes :
           process_file(outcome, selected_output_format) = JNull
    /\ disk' = (output_path :> "") @@ disk
    /\ api_calls' = Append(api_calls, app_matched_files[file_i])
    /\ pc' = "app_error"
    /\ UNCHANGED <<app_frame, selected_file_types, selected_output_format,
                   app_matched_files, file_i, processed_files, app_skipped_count>>

\* lines 546-547: the loop is through
AppFinish ==
    /\ pc = "app_loop"
    /\ file_i > Len(app_matched_files)
    /\ pc' = "app_done"
    /\ UNCHANGED <<app_frame, app_vars>>

AppNext ==
    \/ AppScan
    \/ AppSkipExisting
    \/ AppProcessFile
    \/ AppSaveRaises
    \/ AppFinish

SpecApp == AppInit /\ [][AppNext]_vars

\* --------------------------------------------------------------------- C30
\* the rows of a status
RowsOf(status) == {k \in DOMAIN processed_files : processed_files[k][3] = status}

\* a file whose output exists when it is reached: no API call, disk unchanged;
\* no step changes a file that exists
C30_Step ==
    /\ (AtFile /\ output_path \in DOMAIN disk) => (api_calls' = api_calls /\ disk' = disk)
    /\ \A f \in DOMAIN disk : f \in DOMAIN disk' /\ disk'[f] = disk[f]

\* the loop does not end early, and when main is through every scanned file
\* has one row, skipped or processed, and an output file
C30_AllAccounted ==
    /\ pc # "app_error"
    /\ pc = "app_done" =>
        /\ Len(processed_files) = Len(app_matched_files)
        /\ \A k \in DOMAIN app_matched_files :
              /\ processed_files[k][1] = app_matched_files[k]
              /\ processed_files[k][3] \in {"skipped", "processed"}
              /\ OutputPath(app_matched_files[k], selected_output_format) \in DOMAIN disk
        /\ Cardinality(RowsOf("processed")) + app_skipped_count
               = Len(app_matched_files)

\* C30: the batch loop never overwrites an existing result (a file whose
\* output path exists when it is reached causes no API call and no write),
\* every scanned file ends up skipped or processed exactly once with
\* processed + skipped = scanned, and an output file exists for every
\* scanned file after the loop.
C30_NeverOverwritesAndCompletes == [][C30_Step]_vars /\ []C30_AllAccounted

====
